---- MODULE Spec2Model ----
(***************************************************************************)
(* Booking and scheduling engine of the gym backend: the Workout and       *)
(* Feedback collections, the request handlers bookNewWorkout,              *)
(* cancelWorkout, getUserWorkouts, giveFeedback, getAvailableSlots and     *)
(* getAvailableWorkout, and the system clock.  Every handler is an async   *)
(* function; it is modelled as a process position (pc) that advances one   *)
(* store operation (one await on the Workout or Feedback collection) at a  *)
(* time, so that two requests interleave exactly where the event loop can  *)
(* interleave them.                                                        *)
(* The User collection is never written by these handlers and is a         *)
(* constant of the model.  Instants are minutes since day 0, 00:00.        *)
(*                                                                         *)
(* verifyToken (called, never defined, in workoutController.js) and the    *)
(* identifier mongoose in feedbackController.js are taken to be bound by   *)
(* the deployment: verifyToken yields the caller's {id, role}.             *)
(***************************************************************************)
EXTENDS Integers, Sequences, FiniteSets, TLC

(* ------------------------------------------------------------------ *)
(* Bounds of the model                                                 *)
(* ------------------------------------------------------------------ *)

\* Number of Workout ids the store may mint.
MaxId == 2

Procs == {1, 2}

Clients == {"c1", "c2"}
Coaches == {"k1", "k2"}
Users == Clients \cup Coaches

\* Civil days requests may name.
Dates == {1, 2}

\* The book requests issued: <<caller, coachId, date, timeSlot>>.
BookInputs ==
    { <<"c1", "k1", 2, <<10, 30>>>>, <<"c2", "k1", 2, <<10, 30>>>>,
      <<"c1", "k2", 2, <<10, 30>>>>,
      <<"k1", "k1", 2, <<10, 30>>>>, <<"c1", "k1", 2, <<9, 0>>>>,
      <<"c1", "k1", 1, <<10, 30>>>> }

\* Book requests of the clients with coach k1 whose timeSlot names the hour
\* 8, 20 or 32.
HourInputs ==
    { <<u, "k1", d, <<h, 0>>>> : u \in Clients, d \in Dates, h \in {8, 20, 32} }

\* The queries for open coaches: <<date, time, activity, coachId>>, "-" for
\* a filter that is not given.
OpenInputs ==
    { <<2, <<10, 30>>, "-", "-">>, <<2, <<10, 30>>, "yoga", "-">>,
      <<2, <<11, 30>>, "-", "k1">>, <<2, <<10, 30>>, "Chess", "k2">> }

\* The callers of cancel requests (both clients and one coach), of feedback
\* requests (both clients and both coaches) and of list requests.
CancelUsers == {"c1", "c2", "k1"}
FeedbackUsers == {"c1", "c2", "k1", "k2"}
ListUsers == {"c1", "k1"}

(* ------------------------------------------------------------------ *)
(* Program constants                                                   *)
(* ------------------------------------------------------------------ *)

istOffsetMinutes == 330
bufferTimeInMinutes == 30
cutoffHours == 12
defaultDuration == 60

DayStart(d) == d * 24 * 60

\* The slot the clock instants below are chosen around: day 2, 10:30.
SlotStart == DayStart(2) + 10 * 60 + 30

\* Instants the system clock (UTC) passes through, in order: the last
\* instant at which a cancel is 12 h ahead on the UTC+5:30 clock, one minute
\* later, the first instant inside the 12 h cutoff on the raw UTC clock, the
\* last instant outside the booking lead time, the first instant inside it,
\* and the slot's end.
ClockInstants ==
    << SlotStart - cutoffHours * 60 - istOffsetMinutes,
       SlotStart - cutoffHours * 60 - istOffsetMinutes + 1,
       SlotStart - cutoffHours * 60 + 1,
       SlotStart - bufferTimeInMinutes - istOffsetMinutes,
       SlotStart - bufferTimeInMinutes - istOffsetMinutes + 1,
       SlotStart + defaultDuration - istOffsetMinutes >>

(* ------------------------------------------------------------------ *)
(* User collection (read-only)                                         *)
(* ------------------------------------------------------------------ *)

role(u) == IF u \in Coaches THEN "COACH" ELSE "CLIENT"

preferableActivity(u) == IF u = "k1" THEN "Yoga" ELSE "Climbing"

\* k1 carries the schema default; k2 a template of the profile store whose
\* slot is 90 minutes long.
availableTimeSlots(u) ==
    IF u = "k1"
    THEN << "8:00 PM - 9:00 PM", "10:30 AM - 11:30 AM", "3:00 PM - 4:00 PM",
            "4:00 PM - 5:00 PM", "6:00 PM - 7:00 PM", "7:00 PM - 8:00 PM",
            "8:00 PM - 9:00 PM" >>
    ELSE IF u = "k2" THEN << "10:30 AM - 12:00 PM" >>
    ELSE << >>

(* ------------------------------------------------------------------ *)
(* Workout schema                                                      *)
(* ------------------------------------------------------------------ *)

WFFC == "WAITING FOR FEEDBACK FROM CLIENT"
WFFCoach == "WAITING FOR FEEDBACK FROM COACH"

\* The enum of WorkoutSchema.state, as written.
StateEnum ==
    { "AVAILABLE", "IN_PROGRESS", "SCHEDULED",
      "WAITING FOR FEEDBACK FROM CLIENT, WAITING FOR FEEDBACK FROM COACH",
      "FINISHED", "CANCELED" }

NoClient == "none"

(* ------------------------------------------------------------------ *)
(* State                                                               *)
(* ------------------------------------------------------------------ *)

VARIABLES
    workouts,    \* Workout collection: id -> document
    nextId,      \* next Workout id to mint
    feedbacks,   \* Feedback collection: set of documents
    now,         \* system clock, UTC
    req,         \* per process: the request it runs, its position, its response
    concurrent   \* whether the two processes' current requests overlapped in time

vars == <<workouts, nextId, feedbacks, now, req, concurrent>>

(* ------------------------------------------------------------------ *)
(* Time formatting                                                     *)
(* ------------------------------------------------------------------ *)

Pad2(n) == IF n < 10 THEN "0" \o ToString(n) ELSE ToString(n)

convertTo12HourFormat(hour, minute) ==
    LET period == IF hour >= 12 THEN "PM" ELSE "AM"
        hour12 == IF hour % 12 = 0 THEN 12 ELSE hour % 12
    IN  ToString(hour12) \o ":" \o Pad2(minute) \o " " \o period

\* toLocaleTimeString("en-US", {hour: "numeric", minute: "2-digit",
\* hour12: true, timeZone: "UTC"}) of an instant.
formatTime(t) ==
    LET h == (t % (24 * 60)) \div 60
        m == t % 60
        hour12 == IF h % 12 = 0 THEN 12 ELSE h % 12
    IN  ToString(hour12) \o ":" \o Pad2(m) \o " " \o (IF h >= 12 THEN "PM" ELSE "AM")

startsWith(s, prefix) ==
    Len(prefix) <= Len(s) /\ SubSeq(s, 1, Len(prefix)) = prefix

SeqToSet(s) == { s[i] : i \in 1..Len(s) }

\* filter of a sequence, order kept
RECURSIVE Filter(_, _)
Filter(s, keep) ==
    IF s = << >> THEN << >>
    ELSE IF Head(s) \in keep THEN << Head(s) >> \o Filter(Tail(s), keep)
    ELSE Filter(Tail(s), keep)

(* ------------------------------------------------------------------ *)
(* Store operations (mongoose)                                         *)
(* ------------------------------------------------------------------ *)

\* ids of the documents matching a query, and findOne's answer (0: null)
Match(W, P(_)) == { i \in DOMAIN W : P(W[i]) }
First(S) == IF S = {} THEN 0 ELSE CHOOSE i \in S : \A j \in S : i <= j

\* the collection without its unique index
DuplicateKeyNoIndex(W, doc) == FALSE

\* WorkoutSchema.index({coachId: 1, dateTime: 1}, {unique: true})
DuplicateKey(W, doc) ==
    \E i \in DOMAIN W :
        W[i].coachId = doc.coachId /\ W[i].dateTime = doc.dateTime

\* validation of a new document: the dateTime validator and the state enum
ValidNew(doc, clock) == doc.dateTime > clock /\ doc.state \in StateEnum

\* validation against an enum that lists the two waiting states apart
ValidStateApart(s) == s \in StateEnum \cup {WFFC, WFFCoach}

\* validation of a modified state path on save
ValidState(s) == s \in StateEnum

Put(W, id, doc) == [ i \in DOMAIN W \cup {id} |-> IF i = id THEN doc ELSE W[i] ]
Remove(W, id) == [ i \in DOMAIN W \ {id} |-> W[i] ]

(* ------------------------------------------------------------------ *)
(* Requests                                                            *)
(* ------------------------------------------------------------------ *)

Idle ==
    [ op |-> "idle", pc |-> "done", user |-> "-", coach |-> "-", client |-> "-",
      activity |-> "-", dt |-> 0, wid |-> 0, status |-> 0, out |-> << >>,
      pre |-> "-", step |-> "-", wrote |-> FALSE, snap |-> << >> ]

InFlight(p) == req[p].pc # "done"

Other(p) == CHOOSE q \in Procs : q # p

\* A request is served by the first process that is not in the middle of
\* one.  The two current requests overlap iff the other process is in the
\* middle of one; the response of a request that ended before is dropped.
\* A request that ends in its first step (a rejection, or a read) is atomic
\* and is served between the requests of the other process, not inside one.
CanBegin(p) == ~InFlight(p) /\ \A q \in Procs : q < p => InFlight(q)

Begin(p, r) ==
    /\ CanBegin(p)
    /\ r.pc = "done" => ~InFlight(Other(p))
    /\ concurrent' = InFlight(Other(p))
    /\ req' = [ q \in Procs |->
                 IF q = p THEN r ELSE IF InFlight(q) THEN req[q] ELSE Idle ]

\* an insert into the Workout collection mints an id while ids are left
CanMint == nextId <= MaxId

\* the response; step records where the handler returned ("begin": in the
\* step that started it), wrote whether the request has changed a store
Finish(r, code) ==
    [ r EXCEPT !.pc = "done", !.status = code, !.snap = << >>,
               !.step = IF r.pc = "done" THEN "begin" ELSE r.pc ]

\* state of the coach's slot as a request finds it
SlotState(W, c, t) ==
    LET S == Match(W, LAMBDA w : w.coachId = c /\ w.dateTime = t)
    IN  IF S = {} THEN "fresh" ELSE W[First(S)].state

(* ------------------------------------------------------------------ *)
(* bookNewWorkout                                                      *)
(* ------------------------------------------------------------------ *)

\* the validation without the check of the caller's role
BookValidateAnyRole(p, u, c, d, t) ==
    LET formattedTime == convertTo12HourFormat(t[1], t[2])
        matching == { i \in 1..Len(availableTimeSlots(c)) :
                        startsWith(availableTimeSlots(c)[i], formattedTime) }
        currentISTTime == now + istOffsetMinutes
        requested == DayStart(d) + t[1] * 60 + t[2]
        r == [ Idle EXCEPT !.op = "book", !.user = u, !.coach = c ]
    IN  /\ Begin(p,
              IF role(c) # "COACH" THEN Finish(r, 404)
              ELSE IF matching = {} THEN Finish(r, 404)
              ELSE IF requested < currentISTTime + bufferTimeInMinutes
                   THEN Finish([ r EXCEPT !.dt = requested ], 400)
              ELSE [ r EXCEPT !.dt = requested, !.pc = "client",
                              !.pre = SlotState(workouts, c, requested) ])
        /\ UNCHANGED <<workouts, nextId, feedbacks, now>>

\* the validation with a lead-time check that turns the boundary down
BookValidateStrict(p, u, c, d, t) ==
    LET formattedTime == convertTo12HourFormat(t[1], t[2])
        matching == { i \in 1..Len(availableTimeSlots(c)) :
                        startsWith(availableTimeSlots(c)[i], formattedTime) }
        currentISTTime == now + istOffsetMinutes
        requested == DayStart(d) + t[1] * 60 + t[2]
        r == [ Idle EXCEPT !.op = "book", !.user = u, !.coach = c ]
    IN  /\ Begin(p,
              IF role(u) # "CLIENT" THEN Finish(r, 403)
              ELSE IF role(c) # "COACH" THEN Finish(r, 404)
              ELSE IF matching = {} THEN Finish(r, 404)
              ELSE IF requested <= currentISTTime + bufferTimeInMinutes
                   THEN Finish([ r EXCEPT !.dt = requested ], 400)
              ELSE [ r EXCEPT !.dt = requested, !.pc = "client",
                              !.pre = SlotState(workouts, c, requested) ])
        /\ UNCHANGED <<workouts, nextId, feedbacks, now>>

\* lines 166-290: role, coach, template and lead-time checks
BookValidate(p, u, c, d, t) ==
    LET formattedTime == convertTo12HourFormat(t[1], t[2])
        matching == { i \in 1..Len(availableTimeSlots(c)) :
                        startsWith(availableTimeSlots(c)[i], formattedTime) }
        currentISTTime == now + istOffsetMinutes
        requested == DayStart(d) + t[1] * 60 + t[2]
        r == [ Idle EXCEPT !.op = "book", !.user = u, !.coach = c ]
    IN  /\ Begin(p,
              IF role(u) # "CLIENT" THEN Finish(r, 403)
              ELSE IF role(c) # "COACH" THEN Finish(r, 404)
              ELSE IF matching = {} THEN Finish(r, 404)
              ELSE IF requested < currentISTTime + bufferTimeInMinutes
                   THEN Finish([ r EXCEPT !.dt = requested ], 400)
              ELSE [ r EXCEPT !.dt = requested, !.pc = "client",
                              !.pre = SlotState(workouts, c, requested) ])
        /\ UNCHANGED <<workouts, nextId, feedbacks, now>>

\* a client check that looks only at the requested coach
BookCheckClientSameCoach(p) ==
    LET r == req[p]
        hit == Match(workouts, LAMBDA w :
                 /\ w.clientId = r.user
                 /\ w.coachId = r.coach
                 /\ w.dateTime = r.dt
                 /\ w.state \in {"SCHEDULED", "IN_PROGRESS"})
    IN  /\ req' = [ req EXCEPT ![p] =
              IF hit # {} THEN Finish(r, 409) ELSE [ r EXCEPT !.pc = "coach" ] ]
        /\ UNCHANGED <<workouts, nextId, feedbacks, now, concurrent>>

\* lines 292-303
BookCheckClient(p) ==
    LET r == req[p]
        hit == Match(workouts, LAMBDA w :
                 /\ w.clientId = r.user
                 /\ w.dateTime = r.dt
                 /\ w.state \in {"SCHEDULED", "IN_PROGRESS"})
    IN  /\ req' = [ req EXCEPT ![p] =
              IF hit # {} THEN Finish(r, 409) ELSE [ r EXCEPT !.pc = "coach" ] ]
        /\ UNCHANGED <<workouts, nextId, feedbacks, now, concurrent>>

\* lines 305-316
BookCheckCoach(p) ==
    LET r == req[p]
        hit == Match(workouts, LAMBDA w :
                 /\ w.coachId = r.coach
                 /\ w.dateTime = r.dt
                 /\ w.state \in {"SCHEDULED", "IN_PROGRESS"})
    IN  /\ req' = [ req EXCEPT ![p] =
              IF hit # {} THEN Finish(r, 409) ELSE [ r EXCEPT !.pc = "avail" ] ]
        /\ UNCHANGED <<workouts, nextId, feedbacks, now, concurrent>>

\* lines 318-323
BookFindAvailable(p) ==
    LET r == req[p]
        hit == Match(workouts, LAMBDA w :
                 /\ w.coachId = r.coach
                 /\ w.dateTime = r.dt
                 /\ w.state = "AVAILABLE")
    IN  /\ req' = [ req EXCEPT ![p] = [ r EXCEPT !.wid = First(hit), !.pc = "save" ] ]
        /\ UNCHANGED <<workouts, nextId, feedbacks, now, concurrent>>

\* a claim that answers with an id of its own
BookClaimOtherId(p) ==
    LET r == req[p]
    IN  IF r.wid \notin DOMAIN workouts
        THEN /\ req' = [ req EXCEPT ![p] = Finish(r, 500) ]
             /\ UNCHANGED <<workouts, nextId, feedbacks, now, concurrent>>
        ELSE /\ workouts' = [ workouts EXCEPT ![r.wid].clientId = r.user,
                                               ![r.wid].state = "SCHEDULED" ]
             /\ req' = [ req EXCEPT ![p] = Finish([ r EXCEPT !.out = << nextId >>, !.wrote = TRUE ], 200) ]
             /\ UNCHANGED <<nextId, feedbacks, now, concurrent>>

\* lines 325-341: availableWorkout.save() updates the document by _id
BookClaim(p) ==
    LET r == req[p]
    IN  IF r.wid \notin DOMAIN workouts
        THEN /\ req' = [ req EXCEPT ![p] = Finish(r, 500) ]
             /\ UNCHANGED <<workouts, nextId, feedbacks, now, concurrent>>
        ELSE /\ workouts' = [ workouts EXCEPT ![r.wid].clientId = r.user,
                                               ![r.wid].state = "SCHEDULED" ]
             /\ req' = [ req EXCEPT ![p] = Finish([ r EXCEPT !.out = << r.wid >>, !.wrote = TRUE ], 200) ]
             /\ UNCHANGED <<nextId, feedbacks, now, concurrent>>

\* a create whose catch block does not tell the duplicate key apart
BookCreateLeak(p) ==
    LET r == req[p]
        doc == [ coachId |-> r.coach, clientId |-> r.user, dateTime |-> r.dt,
                 duration |-> defaultDuration, state |-> "SCHEDULED",
                 activity |-> preferableActivity(r.coach) ]
    IN  IF ~CanMint THEN FALSE
        ELSE IF ~ValidNew(doc, now) \/ DuplicateKey(workouts, doc)
        THEN /\ req' = [ req EXCEPT ![p] = Finish(r, 500) ]
             /\ UNCHANGED <<workouts, nextId, feedbacks, now, concurrent>>
        ELSE /\ workouts' = Put(workouts, nextId, doc)
             /\ nextId' = nextId + 1
             /\ req' = [ req EXCEPT ![p] =
                   Finish([ r EXCEPT !.wid = nextId, !.out = << nextId >>, !.wrote = TRUE ], 201) ]
             /\ UNCHANGED <<feedbacks, now, concurrent>>

\* lines 343-380: newWorkout.save() and the catch block
BookCreate(p) ==
    LET r == req[p]
        doc == [ coachId |-> r.coach, clientId |-> r.user, dateTime |-> r.dt,
                 duration |-> defaultDuration, state |-> "SCHEDULED",
                 activity |-> preferableActivity(r.coach) ]
    IN  IF ~CanMint THEN FALSE
        ELSE IF ~ValidNew(doc, now)
        THEN /\ req' = [ req EXCEPT ![p] = Finish(r, 500) ]
             /\ UNCHANGED <<workouts, nextId, feedbacks, now, concurrent>>
        ELSE IF DuplicateKey(workouts, doc)
        THEN /\ req' = [ req EXCEPT ![p] = Finish(r, 409) ]
             /\ UNCHANGED <<workouts, nextId, feedbacks, now, concurrent>>
        ELSE /\ workouts' = Put(workouts, nextId, doc)
             /\ nextId' = nextId + 1
             /\ req' = [ req EXCEPT ![p] =
                   Finish([ r EXCEPT !.wid = nextId, !.out = << nextId >>, !.wrote = TRUE ], 201) ]
             /\ UNCHANGED <<feedbacks, now, concurrent>>

\* the handler, for requests drawn from a set of inputs
bookNewWorkoutFrom(p, inputs) ==
    CASE req[p].pc = "done" ->
           \E i \in inputs : BookValidate(p, i[1], i[2], i[3], i[4])
      [] req[p].op = "book" /\ req[p].pc = "client" -> BookCheckClient(p)
      [] req[p].op = "book" /\ req[p].pc = "coach" -> BookCheckCoach(p)
      [] req[p].op = "book" /\ req[p].pc = "avail" -> BookFindAvailable(p)
      [] req[p].op = "book" /\ req[p].pc = "save" ->
           IF req[p].wid # 0 THEN BookClaim(p) ELSE BookCreate(p)
      [] OTHER -> FALSE

bookNewWorkout(p) == bookNewWorkoutFrom(p, BookInputs)

(* ------------------------------------------------------------------ *)
(* cancelWorkout                                                       *)
(* ------------------------------------------------------------------ *)

\* the checks without the authorization of the caller
CancelReadAnyCaller(p, u, id) ==
    LET r == [ Idle EXCEPT !.op = "cancel", !.user = u, !.wid = id ]
        found == id \in DOMAIN workouts
        workout == workouts[id]
        isClient == workout.clientId # NoClient /\ workout.clientId = u
        s == [ r EXCEPT !.coach = workout.coachId, !.client = workout.clientId,
                        !.activity = workout.activity, !.dt = workout.dateTime,
                        !.pre = workout.state ]
    IN  /\ Begin(p,
              IF ~found THEN Finish(r, 404)
              ELSE IF isClient /\ workout.state # "SCHEDULED" THEN Finish(s, 400)
              ELSE IF workout.dateTime - now < cutoffHours * 60 THEN Finish(s, 400)
              ELSE [ s EXCEPT !.pc = IF isClient THEN "cancel" ELSE "delete" ])
        /\ UNCHANGED <<workouts, nextId, feedbacks, now>>

\* the checks without the client's state guard
CancelReadAnyState(p, u, id) ==
    LET r == [ Idle EXCEPT !.op = "cancel", !.user = u, !.wid = id ]
        found == id \in DOMAIN workouts
        workout == workouts[id]
        isCoach == workout.coachId = u
        isClient == workout.clientId # NoClient /\ workout.clientId = u
        s == [ r EXCEPT !.coach = workout.coachId, !.client = workout.clientId,
                        !.activity = workout.activity, !.dt = workout.dateTime,
                        !.pre = workout.state ]
    IN  /\ Begin(p,
              IF ~found THEN Finish(r, 404)
              ELSE IF ~isCoach /\ ~isClient THEN Finish(s, 403)
              ELSE IF workout.dateTime - now < cutoffHours * 60 THEN Finish(s, 400)
              ELSE [ s EXCEPT !.pc = IF isClient THEN "cancel" ELSE "delete" ])
        /\ UNCHANGED <<workouts, nextId, feedbacks, now>>

\* lines 491-520: findById, then the authorization, state and cutoff checks
CancelRead(p, u, id) ==
    LET r == [ Idle EXCEPT !.op = "cancel", !.user = u, !.wid = id ]
        found == id \in DOMAIN workouts
        workout == workouts[id]
        isCoach == workout.coachId = u
        isClient == workout.clientId # NoClient /\ workout.clientId = u
        s == [ r EXCEPT !.coach = workout.coachId, !.client = workout.clientId,
                        !.activity = workout.activity, !.dt = workout.dateTime,
                        !.pre = workout.state ]
    IN  /\ Begin(p,
              IF ~found THEN Finish(r, 404)
              ELSE IF ~isCoach /\ ~isClient THEN Finish(s, 403)
              ELSE IF isClient /\ workout.state # "SCHEDULED" THEN Finish(s, 400)
              ELSE IF workout.dateTime - now < cutoffHours * 60 THEN Finish(s, 400)
              ELSE [ s EXCEPT !.pc = IF isClient THEN "cancel" ELSE "delete" ])
        /\ UNCHANGED <<workouts, nextId, feedbacks, now>>

\* a client's cancel that re-publishes the record itself
CancelSaveRelease(p) ==
    LET r == req[p]
    IN  IF r.wid \notin DOMAIN workouts
        THEN /\ req' = [ req EXCEPT ![p] = Finish(r, 400) ]
             /\ UNCHANGED <<workouts, nextId, feedbacks, now, concurrent>>
        ELSE /\ workouts' = [ workouts EXCEPT ![r.wid].state = "AVAILABLE" ]
             /\ req' = [ req EXCEPT ![p] = [ r EXCEPT !.pc = "sibling", !.wrote = TRUE ] ]
             /\ UNCHANGED <<nextId, feedbacks, now, concurrent>>

\* lines 522-525: workout.state = "CANCELED"; workout.save()
CancelSave(p) ==
    LET r == req[p]
    IN  IF r.wid \notin DOMAIN workouts \/ ~ValidState("CANCELED")
        THEN /\ req' = [ req EXCEPT ![p] = Finish(r, 400) ]
             /\ UNCHANGED <<workouts, nextId, feedbacks, now, concurrent>>
        ELSE /\ workouts' = [ workouts EXCEPT ![r.wid].state = "CANCELED" ]
             /\ req' = [ req EXCEPT ![p] = [ r EXCEPT !.pc = "sibling", !.wrote = TRUE ] ]
             /\ UNCHANGED <<nextId, feedbacks, now, concurrent>>

\* lines 527-543 and the catch block: newAvailableWorkout.save()
CancelInsert(p) ==
    LET r == req[p]
        doc == [ coachId |-> r.coach, clientId |-> NoClient, dateTime |-> r.dt,
                 duration |-> defaultDuration, state |-> "AVAILABLE",
                 activity |-> r.activity ]
    IN  IF ~CanMint THEN FALSE
        ELSE IF ~ValidNew(doc, now) \/ DuplicateKey(workouts, doc)
        THEN /\ req' = [ req EXCEPT ![p] = Finish(r, 400) ]
             /\ UNCHANGED <<workouts, nextId, feedbacks, now, concurrent>>
        ELSE /\ workouts' = Put(workouts, nextId, doc)
             /\ nextId' = nextId + 1
             /\ req' = [ req EXCEPT ![p] = Finish([ r EXCEPT !.out = << nextId >>, !.wrote = TRUE ], 200) ]
             /\ UNCHANGED <<feedbacks, now, concurrent>>

\* a coach's cancel that re-publishes the slot instead of removing it
CancelDeleteRepublish(p) ==
    LET r == req[p]
    IN  /\ workouts' = IF r.wid \in DOMAIN workouts
                       THEN [ workouts EXCEPT ![r.wid].state = "AVAILABLE",
                                              ![r.wid].clientId = NoClient ]
                       ELSE workouts
        /\ req' = [ req EXCEPT ![p] =
              Finish([ r EXCEPT !.wrote = @ \/ r.wid \in DOMAIN workouts ], 200) ]
        /\ UNCHANGED <<nextId, feedbacks, now, concurrent>>

\* lines 545-552: workout.deleteOne()
CancelDelete(p) ==
    LET r == req[p]
    IN  /\ workouts' = IF r.wid \in DOMAIN workouts THEN Remove(workouts, r.wid)
                       ELSE workouts
        /\ req' = [ req EXCEPT ![p] =
              Finish([ r EXCEPT !.wrote = @ \/ r.wid \in DOMAIN workouts ], 200) ]
        /\ UNCHANGED <<nextId, feedbacks, now, concurrent>>

cancelWorkout(p) ==
    CASE req[p].pc = "done" ->
           \E u \in CancelUsers, id \in 1..MaxId : CancelRead(p, u, id)
      [] req[p].op = "cancel" /\ req[p].pc = "cancel" -> CancelSave(p)
      [] req[p].op = "cancel" /\ req[p].pc = "sibling" -> CancelInsert(p)
      [] req[p].op = "cancel" /\ req[p].pc = "delete" -> CancelDelete(p)
      [] OTHER -> FALSE

(* ------------------------------------------------------------------ *)
(* getUserWorkouts                                                     *)
(* ------------------------------------------------------------------ *)

\* ids in ascending (dateTime, id) order: .sort({ dateTime: 1 })
RECURSIVE SortByDateTime(_, _)
SortByDateTime(W, S) ==
    IF S = {} THEN << >>
    ELSE LET i == CHOOSE i \in S : \A j \in S :
                      \/ W[i].dateTime < W[j].dateTime
                      \/ W[i].dateTime = W[j].dateTime /\ i <= j
         IN  << i >> \o SortByDateTime(W, S \ {i})

\* lines 434-437: the workout has ended and is SCHEDULED
Ended(item, clock) ==
    clock + istOffsetMinutes >= item.endTime /\ item.state = "SCHEDULED"

\* the loop runs without awaiting up to the next workout it has to save
RECURSIVE Skip(_, _, _)
Skip(r, clock, todo) ==
    IF todo = << >> THEN Finish([ r EXCEPT !.snap = << >> ], 200)
    ELSE IF Ended(Head(todo), clock) THEN [ r EXCEPT !.snap = todo, !.pc = "promote" ]
    ELSE Skip([ r EXCEPT !.out = Append(r.out, << Head(todo).id, Head(todo).state >>) ],
              clock, Tail(todo))

\* lines 389-425: the role's query, find, sort
ListRead(p, u) ==
    LET r == [ Idle EXCEPT !.op = "list", !.user = u ]
        found == IF role(u) = "CLIENT"
                 THEN Match(workouts, LAMBDA w : w.clientId = u)
                 ELSE Match(workouts, LAMBDA w : w.coachId = u /\ w.state # "AVAILABLE")
        ids == SortByDateTime(workouts, found)
        docs == [ k \in 1..Len(ids) |->
                    [ id |-> ids[k], state |-> workouts[ids[k]].state,
                      endTime |-> workouts[ids[k]].dateTime + workouts[ids[k]].duration ] ]
    IN  /\ Begin(p, Skip(r, now, docs))
        /\ UNCHANGED <<workouts, nextId, feedbacks, now>>

\* a promotion that finishes the workout at once
ListPromoteFinished(p) ==
    LET r == req[p]
        item == Head(r.snap)
    IN  IF item.id \notin DOMAIN workouts \/ ~ValidState("FINISHED")
        THEN /\ req' = [ req EXCEPT ![p] = Finish([ r EXCEPT !.out = << >> ], 500) ]
             /\ UNCHANGED <<workouts, nextId, feedbacks, now, concurrent>>
        ELSE /\ workouts' = [ workouts EXCEPT ![item.id].state = "FINISHED" ]
             /\ req' = [ req EXCEPT ![p] =
                   Skip([ r EXCEPT !.out = Append(r.out, << item.id, "FINISHED" >>),
                                   !.wrote = TRUE ],
                        now, Tail(r.snap)) ]
             /\ UNCHANGED <<nextId, feedbacks, now, concurrent>>

\* a promotion that marks the workout as in progress
ListPromoteInProgress(p) ==
    LET r == req[p]
        item == Head(r.snap)
    IN  IF item.id \notin DOMAIN workouts \/ ~ValidState("IN_PROGRESS")
        THEN /\ req' = [ req EXCEPT ![p] = Finish([ r EXCEPT !.out = << >> ], 500) ]
             /\ UNCHANGED <<workouts, nextId, feedbacks, now, concurrent>>
        ELSE /\ workouts' = [ workouts EXCEPT ![item.id].state = "IN_PROGRESS" ]
             /\ req' = [ req EXCEPT ![p] =
                   Skip([ r EXCEPT !.out = Append(r.out, << item.id, "IN_PROGRESS" >>),
                                   !.wrote = TRUE ],
                        now, Tail(r.snap)) ]
             /\ UNCHANGED <<nextId, feedbacks, now, concurrent>>

\* lines 438-441 and the catch block: workout.save() of the promoted state
ListPromote(p) ==
    LET r == req[p]
        item == Head(r.snap)
    IN  IF item.id \notin DOMAIN workouts \/ ~ValidState(WFFC)
        THEN /\ req' = [ req EXCEPT ![p] = Finish([ r EXCEPT !.out = << >> ], 500) ]
             /\ UNCHANGED <<workouts, nextId, feedbacks, now, concurrent>>
        ELSE /\ workouts' = [ workouts EXCEPT ![item.id].state = WFFC ]
             /\ req' = [ req EXCEPT ![p] =
                   Skip([ r EXCEPT !.out = Append(r.out, << item.id, WFFC >>),
                                   !.wrote = TRUE ],
                        now, Tail(r.snap)) ]
             /\ UNCHANGED <<nextId, feedbacks, now, concurrent>>

getUserWorkouts(p) ==
    CASE req[p].pc = "done" -> \E u \in ListUsers : ListRead(p, u)
      [] req[p].op = "list" /\ req[p].pc = "promote" -> ListPromote(p)
      [] OTHER -> FALSE

(* ------------------------------------------------------------------ *)
(* giveFeedback                                                        *)
(* ------------------------------------------------------------------ *)

\* the guards without the check of the author's identity
FeedbackReadAnyAuthor(p, u, id) ==
    LET r == [ Idle EXCEPT !.op = "feedback", !.user = u, !.wid = id ]
        found == id \in DOMAIN workouts
        workout == workouts[id]
        authorRole == role(u)
        s == [ r EXCEPT !.coach = workout.coachId, !.client = workout.clientId,
                        !.dt = workout.dateTime, !.pre = workout.state ]
    IN  /\ Begin(p,
              IF ~found THEN Finish(r, 404)
              ELSE IF authorRole = "CLIENT" /\ workout.state # WFFC THEN Finish(s, 400)
              ELSE IF authorRole = "COACH" /\ workout.state # WFFCoach THEN Finish(s, 400)
              ELSE [ s EXCEPT !.pc = "duplicate" ])
        /\ UNCHANGED <<workouts, nextId, feedbacks, now>>

\* lines 22-73: findById, then the state and author guards
FeedbackRead(p, u, id) ==
    LET r == [ Idle EXCEPT !.op = "feedback", !.user = u, !.wid = id ]
        found == id \in DOMAIN workouts
        workout == workouts[id]
        authorRole == role(u)
        s == [ r EXCEPT !.coach = workout.coachId, !.client = workout.clientId,
                        !.dt = workout.dateTime, !.pre = workout.state ]
    IN  /\ Begin(p,
              IF ~found THEN Finish(r, 404)
              ELSE IF authorRole = "CLIENT" /\ workout.state # WFFC THEN Finish(s, 400)
              ELSE IF authorRole = "COACH" /\ workout.state # WFFCoach THEN Finish(s, 400)
              ELSE IF authorRole = "CLIENT" /\ workout.clientId # u THEN Finish(s, 403)
              ELSE IF authorRole = "COACH" /\ workout.coachId # u THEN Finish(s, 403)
              ELSE [ s EXCEPT !.pc = "duplicate" ])
        /\ UNCHANGED <<workouts, nextId, feedbacks, now>>

\* lines 75-83: Feedback.findOne({ workoutId, authorRole })
FeedbackCheckDuplicate(p) ==
    LET r == req[p]
        existing == { f \in feedbacks :
                        f.workoutId = r.wid /\ f.authorRole = role(r.user) }
    IN  /\ req' = [ req EXCEPT ![p] =
              IF existing # {} THEN Finish(r, 400) ELSE [ r EXCEPT !.pc = "insert" ] ]
        /\ UNCHANGED <<workouts, nextId, feedbacks, now, concurrent>>

\* the step without the insertion of the Feedback record
FeedbackInsertNothing(p) ==
    LET r == req[p]
    IN  /\ req' = [ req EXCEPT ![p] = [ r EXCEPT !.pc = "advance", !.wrote = TRUE ] ]
        /\ UNCHANGED <<workouts, nextId, feedbacks, now, concurrent>>

\* lines 85-95: feedback.save(); the Feedback schema declares no index
FeedbackInsert(p) ==
    LET r == req[p]
        feedback == [ id |-> Cardinality(feedbacks) + 1, workoutId |-> r.wid,
                      clientId |-> r.client, coachId |-> r.coach,
                      authorRole |-> role(r.user) ]
    IN  /\ feedbacks' = feedbacks \cup { feedback }
        /\ req' = [ req EXCEPT ![p] = [ r EXCEPT !.pc = "advance", !.wrote = TRUE ] ]
        /\ UNCHANGED <<workouts, nextId, now, concurrent>>

\* lines 97-114: workout.state = ...; workout.save(), and the catch block
FeedbackAdvance(p) ==
    LET r == req[p]
        state == IF role(r.user) = "CLIENT" THEN WFFCoach ELSE "FINISHED"
    IN  IF r.wid \notin DOMAIN workouts \/ ~ValidState(state)
        THEN /\ req' = [ req EXCEPT ![p] = Finish(r, 500) ]
             /\ UNCHANGED <<workouts, nextId, feedbacks, now, concurrent>>
        ELSE /\ workouts' = [ workouts EXCEPT ![r.wid].state = state ]
             /\ req' = [ req EXCEPT ![p] = Finish([ r EXCEPT !.wrote = TRUE ], 201) ]
             /\ UNCHANGED <<nextId, feedbacks, now, concurrent>>

giveFeedback(p) ==
    CASE req[p].pc = "done" ->
           \E u \in FeedbackUsers, id \in 1..MaxId : FeedbackRead(p, u, id)
      [] req[p].op = "feedback" /\ req[p].pc = "duplicate" -> FeedbackCheckDuplicate(p)
      [] req[p].op = "feedback" /\ req[p].pc = "insert" -> FeedbackInsert(p)
      [] req[p].op = "feedback" /\ req[p].pc = "advance" -> FeedbackAdvance(p)
      [] OTHER -> FALSE

(* ------------------------------------------------------------------ *)
(* getAvailableSlots                                                   *)
(* ------------------------------------------------------------------ *)

\* the states the query of lines 110-114 selects
BookedStates ==
    { "SCHEDULED", "IN_PROGRESS", "WAITING FOR FEEDBACK FROM CIENT",
      "WAITING FOR FEEDBACK FROM COACH" }

\* lines 116-132: the label of a booked workout
bookedSlot(w) == formatTime(w.dateTime) \o " - " \o formatTime(w.dateTime + w.duration)

\* lines 106-137
availableSlots(W, c, d) ==
    LET bookedWorkouts == Match(W, LAMBDA w :
                            /\ w.coachId = c
                            /\ w.dateTime >= DayStart(d)
                            /\ w.dateTime <= DayStart(d) + 24 * 60 - 1
                            /\ w.state \in BookedStates)
        bookedSlots == { bookedSlot(W[i]) : i \in bookedWorkouts }
    IN  Filter(availableTimeSlots(c), SeqToSet(availableTimeSlots(c)) \ bookedSlots)

\* a resolver that removes the coach's cancelled records it comes across
getAvailableSlotsPruning(p) ==
    /\ req[p].pc = "done"
    /\ \E c \in Coaches, d \in Dates :
          LET r == [ Idle EXCEPT !.op = "slots", !.coach = c, !.dt = DayStart(d) ]
              today == DayStart(now \div (24 * 60))
              cancelled == Match(workouts, LAMBDA w :
                              w.coachId = c /\ w.state = "CANCELED")
          IN  /\ Begin(p, IF DayStart(d) < today THEN Finish(r, 400)
                          ELSE IF role(c) # "COACH" THEN Finish(r, 404)
                          ELSE Finish([ r EXCEPT !.out = availableSlots(workouts, c, d),
                                                 !.wrote = cancelled # {} ], 200))
              /\ workouts' = IF DayStart(d) < today \/ role(c) # "COACH"
                             THEN workouts
                             ELSE [ i \in DOMAIN workouts \ cancelled |-> workouts[i] ]
    /\ UNCHANGED <<nextId, feedbacks, now>>

\* lines 88-104: today is the UTC day of the system clock
getAvailableSlots(p) ==
    /\ req[p].pc = "done"
    /\ \E c \in Coaches, d \in Dates :
          LET r == [ Idle EXCEPT !.op = "slots", !.coach = c, !.dt = DayStart(d) ]
              today == DayStart(now \div (24 * 60))
          IN  Begin(p, IF DayStart(d) < today THEN Finish(r, 400)
                       ELSE IF role(c) # "COACH" THEN Finish(r, 404)
                       ELSE Finish([ r EXCEPT !.out = availableSlots(workouts, c, d) ], 200))
    /\ UNCHANGED <<workouts, nextId, feedbacks, now>>

(* ------------------------------------------------------------------ *)
(* getAvailableWorkout                                                 *)
(* ------------------------------------------------------------------ *)

validActivities ==
    { "Yoga", "Climbing", "Strength training", "Cross-fit", "Cardio Training",
      "Rehabilitation" }

\* String.prototype.toLowerCase on the activity names in use
toLowerCase(a) ==
    CASE a \in {"Yoga", "yoga"} -> "yoga"
      [] a \in {"Climbing", "climbing"} -> "climbing"
      [] a = "Strength training" -> "strength training"
      [] a = "Cross-fit" -> "cross-fit"
      [] a = "Cardio Training" -> "cardio training"
      [] a = "Rehabilitation" -> "rehabilitation"
      [] a = "Chess" -> "chess"
      [] OTHER -> a

\* { $regex: pattern } on a string without regex operators: the pattern
\* occurs somewhere in s
regexMatch(s, pattern) ==
    \E i \in 1..(Len(s) - Len(pattern) + 1) :
        SubSeq(s, i, i + Len(pattern) - 1) = pattern

\* lines 93-108: User.find(coachFilter), in the order of the collection
coachFilter(requestedTime, activity, coachId) ==
    LET match(u) ==
            /\ role(u) = "COACH"
            /\ \E k \in 1..Len(availableTimeSlots(u)) :
                  regexMatch(availableTimeSlots(u)[k], requestedTime)
            /\ activity # "-" =>
                  toLowerCase(preferableActivity(u)) = toLowerCase(activity)
            /\ coachId # "-" => u = coachId
    IN  (IF match("k1") THEN << "k1" >> ELSE << >>)
          \o (IF match("k2") THEN << "k2" >> ELSE << >>)

\* a pass of the loop that looks for workouts in progress only
OpenLoopInProgress(r, W) ==
    LET coach == Head(r.snap)
        existingWorkout == Match(W, LAMBDA w :
                              /\ w.coachId = coach
                              /\ w.dateTime = r.dt
                              /\ w.state \in {"IN_PROGRESS"})
        s == [ r EXCEPT !.out = IF existingWorkout = {} THEN Append(@, coach) ELSE @,
                        !.snap = Tail(@), !.pc = "scan" ]
    IN  IF s.snap = << >> THEN Finish(s, 200) ELSE s

\* lines 128-151: one pass of the loop, Workout.findOne for the next coach
OpenLoop(r, W) ==
    LET coach == Head(r.snap)
        existingWorkout == Match(W, LAMBDA w :
                              /\ w.coachId = coach
                              /\ w.dateTime = r.dt
                              /\ w.state \in {"SCHEDULED", "IN_PROGRESS"})
        s == [ r EXCEPT !.out = IF existingWorkout = {} THEN Append(@, coach) ELSE @,
                        !.snap = Tail(@), !.pc = "scan" ]
    IN  IF s.snap = << >> THEN Finish(s, 200) ELSE s

\* line 111: what User.find(coachFilter) returns for each query; the User
\* collection does not change
foundCoaches ==
    [ q \in { <<i[2], i[3], i[4]>> : i \in OpenInputs } |->
        coachFilter(formatTime(q[1][1] * 60 + q[1][2]), q[2], q[3]) ]

\* lines 9-126: the checks of the query, the coaches, and the first pass,
\* in store W at instant clock
OpenQuery(d, t, a, c, W, clock) ==
    LET requested == DayStart(d) + t[1] * 60 + t[2]
        r == [ Idle EXCEPT !.op = "open", !.coach = c, !.activity = a,
                           !.dt = requested ]
        isValidActivity == \E v \in validActivities : toLowerCase(v) = toLowerCase(a)
        coaches == foundCoaches[<<t, a, c>>]
    IN  IF a # "-" /\ ~isValidActivity THEN Finish(r, 400)
        ELSE IF t[1] > 23 \/ t[2] > 59 THEN Finish(r, 400)
        ELSE IF requested < clock + istOffsetMinutes THEN Finish(r, 400)
        ELSE IF coaches = << >> THEN Finish(r, 200)
        ELSE OpenLoop([ r EXCEPT !.snap = coaches ], W)

\* the first step of the handler
OpenRead(p, d, t, a, c) ==
    /\ Begin(p, OpenQuery(d, t, a, c, workouts, now))
    /\ UNCHANGED <<workouts, nextId, feedbacks, now>>

\* a later pass of the loop
OpenScan(p) ==
    /\ req' = [ req EXCEPT ![p] = OpenLoop(req[p], workouts) ]
    /\ UNCHANGED <<workouts, nextId, feedbacks, now, concurrent>>

getAvailableWorkout(p) ==
    CASE req[p].pc = "done" ->
           \E i \in OpenInputs : OpenRead(p, i[1], i[2], i[3], i[4])
      [] req[p].op = "open" /\ req[p].pc = "scan" -> OpenScan(p)
      [] OTHER -> FALSE

(* ------------------------------------------------------------------ *)
(* Clock                                                               *)
(* ------------------------------------------------------------------ *)

\* The clock moves on between requests, once their responses are delivered:
\* a request runs within one instant of the clock.
Tick ==
    /\ \A p \in Procs : ~InFlight(p)
    /\ \E i \in 1..(Len(ClockInstants) - 1) :
          now = ClockInstants[i] /\ now' = ClockInstants[i + 1]
    /\ req' = [ p \in Procs |-> Idle ]
    /\ concurrent' = FALSE
    /\ UNCHANGED <<workouts, nextId, feedbacks>>

(* ------------------------------------------------------------------ *)
(* Specification                                                       *)
(* ------------------------------------------------------------------ *)

Init ==
    /\ workouts = << >>
    /\ nextId = 1
    /\ feedbacks = {}
    /\ now = ClockInstants[1]
    /\ req = [ p \in Procs |-> Idle ]
    /\ concurrent = FALSE

Next ==
    \/ \E p \in Procs : bookNewWorkout(p)
    \/ \E p \in Procs : cancelWorkout(p)
    \/ \E p \in Procs : getUserWorkouts(p)
    \/ \E p \in Procs : giveFeedback(p)
    \/ \E p \in Procs : getAvailableSlots(p)
    \/ \E p \in Procs : getAvailableWorkout(p)
    \/ Tick

Spec == Init /\ [][Next]_vars

\* The store holds a workout of k1 and c1 of day 1, 10:30, that has ended and
\* waits for feedback: such documents are in the collection only if they
\* were written to it otherwise than by the saves modelled here, which the
\* state enum rejects.  A workout waiting for its coach has its client's
\* feedback.
SeedTime == DayStart(1) + 10 * 60 + 30

Seed(state) ==
    [ coachId |-> "k1", clientId |-> "c1", dateTime |-> SeedTime,
      duration |-> defaultDuration, state |-> state, activity |-> "Yoga" ]

InitSeeded ==
    /\ \E s \in {WFFC, WFFCoach} :
          /\ workouts = Put(<< >>, 1, Seed(s))
          /\ feedbacks = IF s = WFFC THEN {}
                         ELSE { [ id |-> 1, workoutId |-> 1, clientId |-> "c1",
                                  coachId |-> "k1", authorRole |-> "CLIENT" ] }
    /\ nextId = 2
    /\ now = ClockInstants[1]
    /\ req = [ p \in Procs |-> Idle ]
    /\ concurrent = FALSE

SpecSeeded == InitSeeded /\ [][Next]_vars

(* ------------------------------------------------------------------ *)
(* Properties                                                          *)
(* ------------------------------------------------------------------ *)

Done(p, op) == req[p].op = op /\ req[p].pc = "done"

\* the live states of the lifecycle
LiveStates == { "SCHEDULED", "IN_PROGRESS", WFFC, WFFCoach }

At(c, t) == Match(workouts, LAMBDA w : w.coachId = c /\ w.dateTime = t)

\* the current instant on the UTC+5:30 clock
currentIST == now + istOffsetMinutes

\* C1: in every reachable state no two Workouts that are not CANCELED have
\* the same (coachId, dateTime).
C1_UniqueLiveSlot ==
    \A i \in DOMAIN workouts : \A j \in DOMAIN workouts :
        ( /\ i # j
          /\ workouts[i].state # "CANCELED"
          /\ workouts[j].state # "CANCELED" )
        => ~( /\ workouts[i].coachId = workouts[j].coachId
              /\ workouts[i].dateTime = workouts[j].dateTime )

\* a book request that ran beside another one was turned down by the index
\* while a live workout holds its slot
C1_Witness ==
    \E p \in Procs :
        /\ Done(p, "book") /\ concurrent
        /\ req[p].step = "save" /\ req[p].status = 409
        /\ \E i \in At(req[p].coach, req[p].dt) : workouts[i].state = "SCHEDULED"

\* C2: two concurrent book requests of different clients for one
\* (coachId, instant), the slot fresh or held by an AVAILABLE placeholder,
\* leave exactly one SCHEDULED Workout there; one is answered with success,
\* the other with Conflict.
C2_OneWinner ==
    ( /\ concurrent
      /\ \A p \in Procs :
            /\ Done(p, "book")
            /\ req[p].step # "begin"
            /\ req[p].pre \in {"fresh", "AVAILABLE"}
      /\ req[1].coach = req[2].coach
      /\ req[1].dt = req[2].dt
      /\ req[1].user # req[2].user )
    => /\ Cardinality({ i \in At(req[1].coach, req[1].dt) :
                          workouts[i].state = "SCHEDULED" }) = 1
       /\ \E p \in Procs :
            /\ req[p].status \in {200, 201}
            /\ req[Other(p)].status = 409

\* C3: a client's cancel of their SCHEDULED workout, 12 hours or more ahead,
\* succeeds, leaves the record CANCELED and a new AVAILABLE Workout without
\* client at the same coachId and dateTime.
C3_ClientCancelReleasesSlot ==
    \A p \in Procs :
        ( /\ Done(p, "cancel") /\ ~concurrent
          /\ req[p].user = req[p].client
          /\ req[p].pre = "SCHEDULED"
          /\ req[p].dt - currentIST >= cutoffHours * 60 )
        => /\ req[p].status = 200
           /\ req[p].wid \in DOMAIN workouts
           /\ workouts[req[p].wid].state = "CANCELED"
           /\ \E i \in At(req[p].coach, req[p].dt) :
                /\ i # req[p].wid
                /\ workouts[i].state = "AVAILABLE"
                /\ workouts[i].clientId = NoClient
                /\ workouts[i].activity = req[p].activity

C5_CutoffOnCivilClock ==
    \A p \in Procs :
        ( /\ Done(p, "cancel")
          /\ req[p].status \notin {403, 404}
          /\ req[p].dt - currentIST < cutoffHours * 60 )
        => req[p].status = 400 /\ req[p].step = "begin"

\* C6: a coach's cancel of a live workout outside the cutoff removes the
\* record, and the removal creates no Workout: every other record is as it
\* was.
C6_CoachCancelRemoves ==
    /\ [](\A p \in Procs :
            ( /\ Done(p, "cancel")
              /\ req[p].user = req[p].coach
              /\ req[p].pre \in LiveStates
              /\ req[p].dt - currentIST >= cutoffHours * 60 )
            => req[p].status = 200 /\ req[p].wid \notin DOMAIN workouts)
    /\ [][\A p \in Procs :
            ( /\ req[p].op = "cancel" /\ req[p].pc = "delete"
              /\ req'[p].pc = "done" )
            => /\ DOMAIN workouts' = DOMAIN workouts \ {req[p].wid}
               /\ \A i \in DOMAIN workouts' : workouts'[i] = workouts[i]]_vars

\* a coach has cancelled a SCHEDULED workout 12 hours ahead and it is gone
C6_Witness ==
    \E p \in Procs :
        /\ Done(p, "cancel") /\ req[p].status = 200
        /\ req[p].user = req[p].coach
        /\ req[p].pre = "SCHEDULED"
        /\ req[p].dt - currentIST >= cutoffHours * 60
        /\ req[p].wid \notin DOMAIN workouts

FeedbacksOf(id, author) ==
    { f \in feedbacks : f.workoutId = id /\ f.authorRole = author }

LiveLabels(c, day) ==
    { formatTime(workouts[i].dateTime) \o " - "
        \o formatTime(workouts[i].dateTime + workouts[i].duration) :
      i \in Match(workouts, LAMBDA w :
                    /\ w.coachId = c
                    /\ w.dateTime >= day /\ w.dateTime < day + 24 * 60
                    /\ w.state \in LiveStates) }

Listed(u) ==
    IF role(u) = "CLIENT"
    THEN Match(workouts, LAMBDA w : w.clientId = u)
    ELSE Match(workouts, LAMBDA w : w.coachId = u /\ w.state # "AVAILABLE")

EndedScheduled(i) ==
    /\ workouts[i].state = "SCHEDULED"
    /\ workouts[i].dateTime + workouts[i].duration <= currentIST

NextSerial ==
    \/ bookNewWorkout(1)
    \/ cancelWorkout(1)
    \/ getUserWorkouts(1)
    \/ giveFeedback(1)
    \/ getAvailableSlots(1)
    \/ getAvailableWorkout(1)
    \/ Tick

\* A request that has begun runs to completion, the clock moves on, the
\* coach keeps listing their workouts, and a feedback that passes the
\* guards keeps being submitted while a workout waits for one.
Continue(p) ==
    /\ InFlight(p)
    /\ \/ bookNewWorkout(p) \/ cancelWorkout(p)
       \/ getUserWorkouts(p) \/ giveFeedback(p) \/ getAvailableWorkout(p)

ValidFeedback(p) ==
    \E u \in FeedbackUsers, id \in 1..MaxId :
        FeedbackRead(p, u, id) /\ req'[p].pc = "duplicate"

Fairness ==
    /\ SF_vars(Tick)
    /\ WF_vars(Continue(1))
    /\ SF_vars(ListRead(1, "k1"))
    /\ SF_vars(ValidFeedback(1))

SpecLive == Init /\ [][NextSerial]_vars /\ Fairness

\* Requests served one at a time on the store that holds a waiting workout.
SpecSeededSerial == InitSeeded /\ [][NextSerial]_vars

\* C12: a workout booked with coach k1 that is never cancelled eventually
\* is FINISHED, when requests run to completion and, after its end, its
\* coach lists their workouts and its client and coach submit their
\* feedback (or the ids of the model are used up).
C12_EventuallyFinished ==
    \A id \in 1..MaxId :
        ( /\ id \in DOMAIN workouts
          /\ workouts[id].state = "SCHEDULED"
          /\ workouts[id].coachId = "k1" )
        ~> ( \/ id \notin DOMAIN workouts
             \/ workouts[id].state \in {"FINISHED", "CANCELED"}
             \/ ~CanMint )

\* a step of a request that runs alone from its start to its end
SerialStep == ~concurrent /\ ~concurrent'

\* C13: once a workout is FINISHED or CANCELED, no later request changes
\* its state or removes the record.
C13_TerminalStable ==
    [][ SerialStep =>
          \A id \in DOMAIN workouts :
              workouts[id].state \in {"FINISHED", "CANCELED"}
              => /\ id \in DOMAIN workouts'
                 /\ workouts'[id].state = workouts[id].state ]_vars

\* the changes of state the lifecycle lists, with the request that makes
\* each; "-" stands for no record
Lifecycle ==
    { << "-", "SCHEDULED", "book" >>, << "-", "AVAILABLE", "cancel" >>,
      << "AVAILABLE", "SCHEDULED", "book" >>, << "SCHEDULED", WFFC, "list" >>,
      << WFFC, WFFCoach, "feedback" >>, << WFFCoach, "FINISHED", "feedback" >>,
      << "SCHEDULED", "CANCELED", "cancel" >> }

StateOf(W, id) == IF id \in DOMAIN W THEN W[id].state ELSE "-"

\* C14: when every request runs alone, each change of the state of a
\* Workout is a creation as SCHEDULED or AVAILABLE, a step of the
\* lifecycle, or the deletion of the record by a cancel.
C14_OnlyLifecycleChanges ==
    [][ SerialStep =>
          \A id \in 1..MaxId :
              \/ StateOf(workouts', id) = StateOf(workouts, id)
              \/ \E p \in Procs :
                    /\ req'[p] # req[p]
                    /\ \/ << StateOf(workouts, id), StateOf(workouts', id),
                             req'[p].op >> \in Lifecycle
                       \/ /\ id \in DOMAIN workouts /\ id \notin DOMAIN workouts'
                          /\ req'[p].op = "cancel" /\ req'[p].user = req'[p].coach
        ]_vars

\* a client's cancel that ran alone has moved a SCHEDULED workout to CANCELED
C14_Witness ==
    \E p \in Procs :
        /\ Done(p, "cancel") /\ ~concurrent
        /\ req[p].pre = "SCHEDULED" /\ req[p].step = "sibling"
        /\ workouts[req[p].wid].state = "CANCELED"

\* C15: a book, cancel or feedback request that returns an error has
\* written nothing: the stores are as they were before it.
C15_ErrorsWriteNothing ==
    \A p \in Procs :
        ( /\ req[p].pc = "done"
          /\ req[p].op \in {"book", "cancel", "feedback"}
          /\ req[p].status >= 400 )
        => ~req[p].wrote

\* C16: when the unique index rejects the write of a book request, the
\* request returns 409, not 500, and leaves the stores as they are.
C16_DuplicateKeyIsConflict ==
    [][ \A p \in Procs :
          ( /\ req[p].op = "book" /\ req[p].pc = "save" /\ req[p].wid = 0
            /\ req'[p] # req[p]
            /\ \E i \in DOMAIN workouts :
                  /\ workouts[i].coachId = req[p].coach
                  /\ workouts[i].dateTime = req[p].dt )
          => /\ req'[p].pc = "done" /\ req'[p].status = 409
             /\ ~req'[p].wrote
             /\ workouts' = workouts /\ feedbacks' = feedbacks ]_vars

\* a book request that ran alone passed the conflict checks at a slot
\* whose record is CANCELED and was turned down by the index
C16_Witness ==
    \E p \in Procs :
        /\ Done(p, "book") /\ ~concurrent
        /\ req[p].pre = "CANCELED" /\ req[p].step = "save" /\ req[p].wid = 0
        /\ req[p].status = 409 /\ ~req[p].wrote

\* C17: a book request that reaches the lead-time check with an instant
\* earlier than the current instant of the UTC+5:30 clock plus 30 minutes
\* returns 400 and writes nothing; one at that instant or later is not
\* turned down by the check.
C17_LeadTime ==
    \A p \in Procs :
        ( req[p].op = "book" /\ req[p].dt # 0 )
        => /\ req[p].dt < currentIST + bufferTimeInMinutes
              => /\ req[p].pc = "done" /\ req[p].status = 400
                 /\ req[p].step = "begin" /\ ~req[p].wrote
           /\ req[p].dt >= currentIST + bufferTimeInMinutes
              => req[p].step # "begin"

\* a book request for the instant exactly 30 minutes ahead has created its
\* workout
C17_Witness ==
    \E p \in Procs :
        /\ Done(p, "book") /\ req[p].status = 201
        /\ req[p].dt = currentIST + bufferTimeInMinutes
        /\ workouts[req[p].wid].state = "SCHEDULED"

\* a book request for an instant 29 minutes ahead has been turned down
C17_Rejected ==
    \E p \in Procs :
        /\ Done(p, "book") /\ req[p].status = 400
        /\ req[p].dt = currentIST + bufferTimeInMinutes - 1

\* the workouts that make a book request a double booking
Busy(W, field, who, t) ==
    \E i \in DOMAIN W :
        /\ W[i][field] = who
        /\ W[i].dateTime = t
        /\ W[i].state \in {"SCHEDULED", "IN_PROGRESS"}

\* C18: a book request whose client is the client of a SCHEDULED or
\* IN_PROGRESS workout at the requested instant, with whatever coach,
\* returns 409 and writes nothing, and so does one whose coach has such a
\* workout at that instant.
C18_DoubleBookingIsConflict ==
    [][ \A p \in Procs :
          ( /\ req[p].op = "book" /\ req'[p] # req[p]
            /\ \/ /\ req[p].pc = "client"
                  /\ Busy(workouts, "clientId", req[p].user, req[p].dt)
               \/ /\ req[p].pc = "coach"
                  /\ Busy(workouts, "coachId", req[p].coach, req[p].dt) )
          => /\ req'[p].pc = "done" /\ req'[p].status = 409
             /\ ~req'[p].wrote
             /\ workouts' = workouts /\ feedbacks' = feedbacks ]_vars

\* a client who holds a SCHEDULED workout with one coach was turned down
\* for the same instant with another coach
C18_Witness ==
    \E p \in Procs :
        /\ Done(p, "book") /\ req[p].step = "client" /\ req[p].status = 409
        /\ ~req[p].wrote
        /\ \E i \in DOMAIN workouts :
              /\ workouts[i].clientId = req[p].user
              /\ workouts[i].coachId # req[p].coach
              /\ workouts[i].dateTime = req[p].dt
              /\ workouts[i].state = "SCHEDULED"

\* C19: a successful book for a slot that holds an AVAILABLE placeholder
\* returns the placeholder's id and leaves the number of Workouts as it is;
\* a successful book for a slot without one returns an id no Workout had
\* and adds exactly one Workout.
C19_ClaimReusesId ==
    [][ SerialStep =>
          \A p \in Procs :
              ( /\ req[p].op = "book" /\ req[p].pc = "save"
                /\ req'[p].pc = "done" /\ req'[p].status \in {200, 201} )
              => LET placeholders ==
                       { i \in At(req[p].coach, req[p].dt) :
                           workouts[i].state = "AVAILABLE" }
                     id == req'[p].out[1]
                 IN  IF placeholders # {}
                     THEN /\ id \in placeholders
                          /\ DOMAIN workouts' = DOMAIN workouts
                     ELSE /\ id \notin DOMAIN workouts /\ id >= nextId
                          /\ DOMAIN workouts' = DOMAIN workouts \cup {id}
                          /\ Cardinality(DOMAIN workouts') =
                                Cardinality(DOMAIN workouts) + 1 ]_vars

\* a book request that ran alone has claimed a placeholder and answered
\* with its id
C19_Witness ==
    \E p \in Procs :
        /\ Done(p, "book") /\ ~concurrent
        /\ req[p].pre = "AVAILABLE" /\ req[p].status = 200
        /\ req[p].out = << req[p].wid >>
        /\ workouts[req[p].wid].state = "SCHEDULED"
        /\ workouts[req[p].wid].clientId = req[p].user

\* C20: a cancel by the workout's client is rejected with 400, with nothing
\* written, whenever the workout is not SCHEDULED; and no slot holds more
\* than one AVAILABLE Workout.
C20_ClientCancelOnlyScheduled ==
    /\ \A p \in Procs :
          ( /\ req[p].op = "cancel"
            /\ req[p].user = req[p].client
            /\ req[p].pre \notin {"SCHEDULED", "-"} )
          => /\ req[p].pc = "done" /\ req[p].status = 400
             /\ req[p].step = "begin" /\ ~req[p].wrote
    /\ \A i \in DOMAIN workouts :
          Cardinality({ j \in At(workouts[i].coachId, workouts[i].dateTime) :
                          workouts[j].state = "AVAILABLE" }) <= 1

\* the client's second cancel of a workout, 12 hours ahead, was turned down
C20_Witness ==
    \E p \in Procs :
        /\ Done(p, "cancel") /\ req[p].user = req[p].client
        /\ req[p].pre = "CANCELED" /\ req[p].status = 400
        /\ req[p].dt - currentIST >= cutoffHours * 60
        /\ workouts[req[p].wid].state = "CANCELED"

\* C21: a cancel by a caller who is neither the coach nor the client of the
\* workout it names returns 403 in its first step and writes nothing,
\* whatever the state of the workout and the instant of the clock.
C21_StrangerCancelForbidden ==
    \A p \in Procs :
        ( /\ req[p].op = "cancel"
          /\ req[p].pre # "-"
          /\ req[p].user # req[p].coach
          /\ req[p].user # req[p].client )
        => /\ req[p].pc = "done" /\ req[p].status = 403
           /\ req[p].step = "begin" /\ ~req[p].wrote
           /\ req[p].wid \in DOMAIN workouts
           /\ workouts[req[p].wid].state = req[p].pre

\* another client's cancel of a SCHEDULED workout, 12 hours ahead, was
\* turned down with 403 and the workout is as it was
C21_Witness ==
    \E p \in Procs :
        /\ Done(p, "cancel") /\ req[p].status = 403
        /\ req[p].user \in Clients /\ req[p].client \in Clients
        /\ req[p].user # req[p].client
        /\ req[p].pre = "SCHEDULED"
        /\ req[p].dt - now >= cutoffHours * 60
        /\ workouts[req[p].wid].state = "SCHEDULED"

\* the state giveFeedback demands of the workout for an author of a role
FeedbackState(author) == IF role(author) = "CLIENT" THEN WFFC ELSE WFFCoach

\* the author is the workout's client, or its coach, as their role says
FeedbackAuthor(r) ==
    IF role(r.user) = "CLIENT" THEN r.user = r.client ELSE r.user = r.coach

C22_Accepted ==
    \E p \in Procs :
        /\ Done(p, "feedback") /\ req[p].status = 201
        /\ req[p].user = req[p].coach
        /\ FeedbacksOf(req[p].wid, "COACH") # {}
        /\ FeedbacksOf(req[p].wid, "CLIENT") # {}

\* Book requests alone, served one at a time, with timeSlots of any hour.
NextHours ==
    \/ bookNewWorkoutFrom(1, HourInputs)
    \/ Tick

SpecHours == Init /\ [][NextHours]_vars

\* the labels of a coach's template start with the time of the instant
AtLabelStart(c, t) ==
    \E k \in 1..Len(availableTimeSlots(c)) :
        startsWith(availableTimeSlots(c)[k], formatTime(t))

\* C23: a book request answered 404 has written nothing, and every Workout
\* a book request has created starts at the start of a label of its
\* coach's template.
C23_BookedAtLabelStart ==
    /\ \A p \in Procs :
          ( Done(p, "book") /\ req[p].status = 404 )
          => req[p].step = "begin" /\ ~req[p].wrote
    /\ \A i \in DOMAIN workouts : AtLabelStart(workouts[i].coachId, workouts[i].dateTime)

\* C24: a book request whose caller does not have the role CLIENT is
\* answered 403 in its first step and writes nothing; no Workout has a
\* client of another role.
C24_OnlyClientsBook ==
    /\ \A p \in Procs :
          ( req[p].op = "book" /\ role(req[p].user) # "CLIENT" )
          => /\ req[p].pc = "done" /\ req[p].status = 403
             /\ req[p].step = "begin" /\ ~req[p].wrote
    /\ \A i \in DOMAIN workouts :
          workouts[i].clientId # NoClient => role(workouts[i].clientId) = "CLIENT"

\* a coach's book request was turned down while the slot of the requests
\* is free and far enough ahead to be booked
C24_Witness ==
    \E p \in Procs :
        /\ Done(p, "book") /\ req[p].status = 403
        /\ role(req[p].user) = "COACH"
        /\ At(req[p].coach, SlotStart) = {}
        /\ SlotStart >= currentIST + bufferTimeInMinutes

\* the start of the current civil day of the UTC+5:30 clock
currentISTDay == DayStart(currentIST \div (24 * 60))

\* C25: a resolve request for a date earlier than the current civil day of
\* the UTC+5:30 clock is answered 400; one for that day or a later day is
\* not turned down for its date.
C25_ResolveDayOnCivilClock ==
    \A p \in Procs :
        Done(p, "slots")
        => /\ req[p].dt < currentISTDay => req[p].status = 400
           /\ req[p].dt >= currentISTDay => req[p].status # 400

\* the coaches the filters of an open-coaches query select
Filtered(r) == SeqToSet(coachFilter(formatTime(r.dt), r.activity, r.coach))

\* C26: an answered open-coaches query that ran alone returns exactly the
\* coaches its filters select that have no live workout (SCHEDULED,
\* IN_PROGRESS or waiting for a feedback) at the requested instant.
C26_OpenCoachesHaveNoLiveWorkout ==
    \A p \in Procs :
        ( Done(p, "open") /\ req[p].status = 200 /\ ~concurrent )
        => \A c \in Coaches :
              c \in SeqToSet(req[p].out)
              <=> /\ c \in Filtered(req[p])
                  /\ \A i \in At(c, req[p].dt) : workouts[i].state \notin LiveStates

\* a query without filters has left out the coach whose slot is SCHEDULED
\* and returned the other coach
C26_Witness ==
    \E p \in Procs :
        /\ Done(p, "open") /\ req[p].status = 200 /\ ~concurrent
        /\ Filtered(req[p]) = Coaches
        /\ \E i \in At("k1", req[p].dt) : workouts[i].state = "SCHEDULED"
        /\ req[p].out = << "k2" >>

\* C27: no Workout is ever in state IN_PROGRESS.
C27_NeverInProgress ==
    \A i \in DOMAIN workouts : workouts[i].state # "IN_PROGRESS"

\* a list request has met a workout whose start has passed, and the
\* workout is SCHEDULED
C27_Witness ==
    \E p \in Procs :
        /\ Done(p, "list") /\ req[p].step = "promote"
        /\ \E i \in Listed(req[p].user) :
              /\ workouts[i].dateTime <= currentIST
              /\ workouts[i].state = "SCHEDULED"

C28_NothingPromoted ==
    \E p \in Procs :
        /\ Done(p, "list") /\ req[p].step = "promote" /\ ~req[p].wrote
        /\ \E i \in Listed(req[p].user) : EndedScheduled(i)

\* C29: no step of a resolve request or of an open-coaches query changes a
\* Workout or a Feedback, whatever its input and its answer.  (The coaches'
\* templates are not state: no handler of the engine writes a User.)
C29_ResolversNeverWrite ==
    /\ [][ \A p \in Procs :
              ( req'[p].op \in {"slots", "open"} /\ req'[p] # req[p] )
              => /\ workouts' = workouts
                 /\ feedbacks' = feedbacks
                 /\ nextId' = nextId ]_vars
    /\ [](\A p \in Procs : req[p].op \in {"slots", "open"} => ~req[p].wrote)

\* a resolve request was answered with the coach's slots while the store
\* holds a SCHEDULED and a CANCELED workout
C29_Witness ==
    \E p \in Procs :
        /\ Done(p, "slots") /\ req[p].status = 200 /\ req[p].out # << >>
        /\ \E i \in DOMAIN workouts : workouts[i].state = "SCHEDULED"
        /\ \E i \in DOMAIN workouts :
              workouts[i].state = "CANCELED" /\ workouts[i].coachId = req[p].coach

\* an open-coaches query was answered beside another request while the
\* store holds a workout
C29_OpenAnswered ==
    \E p \in Procs :
        /\ Done(p, "open") /\ req[p].status = 200 /\ concurrent
        /\ req[p].step = "scan"
        /\ DOMAIN workouts # {}

\* Book, list and feedback requests of two processes on the store that
\* holds a waiting workout.
NextFeedbackRace ==
    \/ \E p \in Procs : bookNewWorkout(p)
    \/ \E p \in Procs : getUserWorkouts(p)
    \/ \E p \in Procs : giveFeedback(p)
    \/ Tick

SpecFeedbackRace == InitSeeded /\ [][NextFeedbackRace]_vars

\* the order of the states along the lifecycle
Rank(state) ==
    CASE state = "AVAILABLE" -> 0
      [] state = "SCHEDULED" -> 1
      [] state = WFFC -> 2
      [] state = WFFCoach -> 3
      [] state = "FINISHED" -> 4
      [] OTHER -> 5

C31_ClientNotDoubleBooked ==
    \A i \in DOMAIN workouts : \A j \in DOMAIN workouts :
        ( /\ i # j
          /\ workouts[i].state = "SCHEDULED" /\ workouts[j].state = "SCHEDULED"
          /\ workouts[i].dateTime = workouts[j].dateTime )
        => workouts[i].clientId # workouts[j].clientId

\* the state a step that saves an existing Workout assigns to it, "-" for
\* every other step
Assigned(r) ==
    CASE r.op = "book" /\ r.pc = "save" /\ r.wid # 0 -> "SCHEDULED"
      [] r.op = "cancel" /\ r.pc = "cancel" -> "CANCELED"
      [] r.op = "list" /\ r.pc = "promote" -> WFFC
      [] r.op = "feedback" /\ r.pc = "advance" ->
           IF role(r.user) = "CLIENT" THEN WFFCoach ELSE "FINISHED"
      [] OTHER -> "-"

\* the Workout such a step saves
Saved(r) == IF r.op = "list" THEN Head(r.snap).id ELSE r.wid

\* C32: every state a handler assigns to a Workout is accepted by the
\* schema's validation: a step that assigns a state to a Workout that is in
\* the store and saves it leaves the Workout in that state.
C32_AssignedStatesAreValid ==
    [][ \A p \in Procs :
          ( /\ Assigned(req[p]) # "-"
            /\ req'[p] # req[p]
            /\ Saved(req[p]) \in DOMAIN workouts )
          => /\ Saved(req[p]) \in DOMAIN workouts'
             /\ workouts'[Saved(req[p])].state = Assigned(req[p]) ]_vars

\* a Feedback record of the given author role exists for Workout id
HasFeedback(id, authorRole) ==
    \E f \in feedbacks : f.workoutId = id /\ f.authorRole = authorRole

C34_ClientIdFollowsState ==
    /\ [](\A id \in DOMAIN workouts :
            workouts[id].clientId = NoClient <=> workouts[id].state = "AVAILABLE")
    /\ [][ \A id \in DOMAIN workouts \cap DOMAIN workouts' :
              workouts[id].state # "AVAILABLE"
              => workouts'[id].clientId = workouts[id].clientId ]_vars

\* the answer of a query for open coaches that runs alone in store W
RECURSIVE OpenAnswer(_, _)
OpenAnswer(r, W) == IF r.pc = "done" THEN r ELSE OpenAnswer(OpenLoop(r, W), W)

\* a query for open coaches issued in the current state lists coach c for
\* instant t
OpenLists(c, t) ==
    \E i \in OpenInputs :
        LET a == OpenAnswer(OpenQuery(i[1], i[2], i[3], i[4], workouts, now), workouts)
        IN  a.status = 200 /\ a.dt = t /\ c \in SeqToSet(a.out)

\* client u may book instant t: it lies at least the buffer ahead and u has
\* no live Workout there
MayBook(u, t) ==
    /\ role(u) = "CLIENT"
    /\ t >= currentIST + bufferTimeInMinutes
    /\ \A id \in DOMAIN workouts :
          ~( /\ workouts[id].clientId = u /\ workouts[id].dateTime = t
             /\ workouts[id].state \in LiveStates )

\* C35: a book request that runs alone, for a coach and an instant that a
\* query for open coaches issued in the same state lists, by a client who
\* may book the instant, succeeds: it is not rejected in its first step
\* and it ends with 200 or 201.
C35_OpenCoachIsBookable ==
    [][ \A p \in Procs :
          /\ \A b \in BookInputs :
                ( /\ BookValidate(p, b[1], b[2], b[3], b[4])
                  /\ ~concurrent'
                  /\ OpenLists(b[2], DayStart(b[3]) + b[4][1] * 60 + b[4][2])
                  /\ MayBook(b[1], DayStart(b[3]) + b[4][1] * 60 + b[4][2]) )
                => req'[p].pc # "done"
          /\ ( /\ req[p].op = "book" /\ InFlight(p)
               /\ req'[p].pc = "done" /\ ~concurrent'
               /\ OpenLists(req[p].coach, req[p].dt)
               /\ MayBook(req[p].user, req[p].dt) )
             => req'[p].status \in {200, 201} ]_vars

\* C36: when a client's cancel and a coach's cancel of the same Workout have
\* overlapped and the coach's cancel has answered 200, no Workout record is
\* left at the Workout's (coachId, dateTime) once both have ended.
C36_CoachCancelLeavesNothing ==
    \A p \in Procs :
        ( /\ concurrent
          /\ Done(p, "cancel") /\ Done(Other(p), "cancel")
          /\ req[p].wid = req[Other(p)].wid
          /\ req[p].pre = "SCHEDULED"
          /\ role(req[p].user) = "COACH" /\ req[p].status = 200
          /\ role(req[Other(p)].user) = "CLIENT" )
        => At(req[p].coach, req[p].dt) = {}

====
